---------------------------- MODULE Spec2Model ----------------------------
(* Model of convert_nsx.go: the translation of a JSON service description  *)
(* into Kubernetes NetworkPolicy documents.                                *)
(*                                                                         *)
(* Strings whose characters matter (display names, port tokens) are        *)
(* sequences of one-character strings; opaque strings (protocol,           *)
(* namespace, file path) are TLA+ strings.                                 *)
EXTENDS Integers, Sequences, FiniteSets

VARIABLES pc, jsonFile, namespace, file, root, si, ei, policy,
          ingressRules, egressRules, stdout, stderr

vars == <<pc, jsonFile, namespace, file, root, si, ei, policy,
          ingressRules, egressRules, stdout, stderr>>

(***************************************************************************)
(* Bounds of the checked inputs                                            *)
(***************************************************************************)
MaxServices == 2
MaxEntries == 2
MaxPorts == 2
MaxNameLen == 4

BSeq(S, n) == UNION {[1..k -> S] : k \in 0..n}
Range(s) == {s[i] : i \in 1..Len(s)}

(***************************************************************************)
(* Characters                                                              *)
(***************************************************************************)
LowerLetters == <<"a","b","c","d","e","f","g","h","i","j","k","l","m",
                  "n","o","p","q","r","s","t","u","v","w","x","y","z">>
UpperLetters == <<"A","B","C","D","E","F","G","H","I","J","K","L","M",
                  "N","O","P","Q","R","S","T","U","V","W","X","Y","Z">>
Digits == <<"0","1","2","3","4","5","6","7","8","9">>

\* U+212A KELVIN SIGN: a non-ASCII letter whose lower case is ASCII "k".
KelvinSign == "U+212A"
\* U+00E9: a non-ASCII lower-case letter.
EAcute == "U+00E9"

(***************************************************************************)
(* strings.ToLower                                                         *)
(***************************************************************************)
ToLowerRune(c) ==
    IF \E i \in 1..26 : UpperLetters[i] = c
    THEN LowerLetters[CHOOSE i \in 1..26 : UpperLetters[i] = c]
    ELSE IF c = KelvinSign THEN "k" ELSE c

ToLower(s) == [i \in 1..Len(s) |-> ToLowerRune(s[i])]

(***************************************************************************)
(* regexp `[^a-z0-9-]+` and ReplaceAllString(name, "-")                    *)
(***************************************************************************)
\* TRUE iff the character is in the negated class [^a-z0-9-].
reClass(c) == c \notin (Range(LowerLetters) \cup Range(Digits) \cup {"-"})

RECURSIVE ReplaceEach(_, _)
ReplaceEach(s, inRun) ==
    IF s = <<>> THEN <<>>
    ELSE IF reClass(Head(s))
         THEN <<"-">> \o ReplaceEach(Tail(s), TRUE)
         ELSE <<Head(s)>> \o ReplaceEach(Tail(s), FALSE)

\* inRun: the previous character belongs to the match being replaced.
RECURSIVE ReplaceFrom(_, _)
ReplaceFrom(s, inRun) ==
    IF s = <<>> THEN <<>>
    ELSE IF reClass(Head(s))
         THEN (IF inRun THEN <<>> ELSE <<"-">>) \o ReplaceFrom(Tail(s), TRUE)
         ELSE <<Head(s)>> \o ReplaceFrom(Tail(s), FALSE)

ReplaceAllString(s) == ReplaceFrom(s, FALSE)

(***************************************************************************)
(* strings.Trim(name, "-")                                                 *)
(***************************************************************************)
RECURSIVE TrimLeft(_, _)
TrimLeft(s, c) ==
    IF s # <<>> /\ Head(s) = c THEN TrimLeft(Tail(s), c) ELSE s

RECURSIVE TrimRight(_, _)
TrimRight(s, c) ==
    IF s # <<>> /\ s[Len(s)] = c
    THEN TrimRight(SubSeq(s, 1, Len(s) - 1), c) ELSE s

TrimOnce(s, c) ==
    LET l == IF s # <<>> /\ Head(s) = c THEN Tail(s) ELSE s
    IN  IF l # <<>> /\ l[Len(l)] = c THEN SubSeq(l, 1, Len(l) - 1) ELSE l

Trim(s, c) == TrimRight(TrimLeft(s, c), c)

(***************************************************************************)
(* sanitizeName                                                            *)
(***************************************************************************)
sanitizeNoTrim(name) == ReplaceAllString(ToLower(name))

sanitizeNoLower(name) == Trim(ReplaceAllString(name), "-")

sanitizeName(name) == Trim(ReplaceAllString(ToLower(name)), "-")

(***************************************************************************)
(* strconv.Atoi: optional sign, then one or more decimal digits.  On a     *)
(* syntax error the value is 0.  Tokens here are far too short to leave    *)
(* the range of int, so the range error does not arise.                    *)
(***************************************************************************)
IsDigit(c) == c \in Range(Digits)
DigitVal(c) == (CHOOSE i \in 1..10 : Digits[i] = c) - 1

RECURSIVE DecVal(_, _)
DecVal(s, acc) ==
    IF s = <<>> THEN acc ELSE DecVal(Tail(s), acc * 10 + DigitVal(Head(s)))

Atoi(s) ==
    LET signed == s # <<>> /\ Head(s) \in {"+", "-"}
        body   == IF signed THEN Tail(s) ELSE s
        ok     == body # <<>> /\ \A i \in 1..Len(body) : IsDigit(body[i])
        n      == IF ok THEN DecVal(body, 0) ELSE 0
    IN  [val |-> IF signed /\ Head(s) = "-" THEN 0 - n ELSE n, ok |-> ok]

(***************************************************************************)
(* Rule building, lines 113-149: one port element per token, the entry's   *)
(* protocol on each; the error of Atoi is discarded.                       *)
(***************************************************************************)
BuildPorts(ports, proto) ==
    [j \in 1..Len(ports) |-> [Port |-> Atoi(ports[j]).val, Protocol |-> proto]]

IngressAlways(rules, entry) ==
    Append(rules, [Ports |-> BuildPorts(entry.DestinationPorts, entry.L4Protocol)])

IngressPrepend(rules, entry) ==
    IF Len(entry.DestinationPorts) > 0
    THEN <<[Ports |-> BuildPorts(entry.DestinationPorts, entry.L4Protocol)]>> \o rules
    ELSE rules

AddIngress(rules, entry) ==
    IF Len(entry.DestinationPorts) > 0
    THEN Append(rules, [Ports |-> BuildPorts(entry.DestinationPorts, entry.L4Protocol)])
    ELSE rules

AddEgress(rules, entry) ==
    IF Len(entry.SourcePorts) > 0
    THEN Append(rules, [Ports |-> BuildPorts(entry.SourcePorts, entry.L4Protocol)])
    ELSE rules

(***************************************************************************)
(* Policy assembly, lines 151-159                                          *)
(***************************************************************************)
PolicyTypesEgressFirst(ing, eg) ==
    (IF Len(eg) > 0 THEN <<"Egress">> ELSE <<>>)
    \o (IF Len(ing) > 0 THEN <<"Ingress">> ELSE <<>>)

PolicyTypes(ing, eg) ==
    (IF Len(ing) > 0 THEN <<"Ingress">> ELSE <<>>)
    \o (IF Len(eg) > 0 THEN <<"Egress">> ELSE <<>>)

\* The NetworkPolicy value of lines 87-96, before any rule is added.
NewPolicy(name, ns) ==
    [APIVersion  |-> "networking.k8s.io/v1",
     Kind        |-> "NetworkPolicy",
     Name        |-> name,
     Namespace   |-> ns,
     MatchLabels |-> [app |-> name],
     PolicyTypes |-> <<>>,
     Ingress     |-> <<>>,
     Egress      |-> <<>>]

(***************************************************************************)
(* yaml.Marshal of a NetworkPolicy: the keys of the document in struct     *)
(* order; `egress` carries omitempty, every other key is always written.   *)
(***************************************************************************)
Marshal(p) ==
    [apiVersion  |-> p.APIVersion,
     kind        |-> p.Kind,
     name        |-> p.Name,
     namespace   |-> p.Namespace,
     matchLabels |-> p.MatchLabels,
     policyTypes |-> p.PolicyTypes,
     ingress     |-> p.Ingress,
     egress      |-> p.Egress,
     specKeys    |-> <<"podSelector", "policyTypes", "ingress">>
                     \o (IF Len(p.Egress) > 0 THEN <<"egress">> ELSE <<>>)]

PrintfPrepend(out, doc) == <<doc>> \o out

\* fmt.Printf("---\n%s\n", yaml): one more "---"-prefixed document on stdout.
Printf(out, doc) == Append(out, doc)

(***************************************************************************)
(* Inputs: command line, file, and the services the file decodes to        *)
(***************************************************************************)
Str80 == <<"8", "0">>
Str443 == <<"4", "4", "3">>
StrAbc == <<"a", "b", "c">>
StrWebService == <<"W","e","b"," ","S","e","r","v","i","c","e">>
StrSymbols == <<"#", "#", "#">>
StrMixed == <<"A","!","!"," ","B","_","_","C">>

Tokens == {Str80, StrAbc}
NameChars == {"a", "B", "0", "-", " ", EAcute, KelvinSign}

Http == [L4Protocol |-> "TCP", DestinationPorts |-> <<Str80>>, SourcePorts |-> <<>>]
Https == [L4Protocol |-> "TCP", DestinationPorts |-> <<Str443>>, SourcePorts |-> <<>>]
Odd == [L4Protocol |-> "UDP",
        DestinationPorts |-> <<Str80, StrAbc>>,
        SourcePorts |-> <<<<"+", "8">>, <<"-", "1">>, <<>>, <<"8", "a">>, <<"-">>>>]
NoPorts == [L4Protocol |-> "TCP", DestinationPorts |-> <<>>, SourcePorts |-> <<>>]

\* The entries of the runs that vary the port lists.
EntryInputs ==
    [L4Protocol : {"TCP"},
     DestinationPorts : BSeq(Tokens, MaxPorts),
     SourcePorts : {<<>>, <<Str443, StrAbc>>}]

\* The services of the runs that vary the number of services.
ServiceInputs ==
    [DisplayName : {StrWebService, StrSymbols, StrMixed},
     ServiceEntries : {<<>>, <<Http, Https>>, <<Odd>>, <<NoPorts, Http>>}]

\* The command line and the file of a run: the file is readable or not,
\* valid JSON or not, and decodes to the services.
Run(f, ns, readable, valid, services) ==
    /\ jsonFile = f
    /\ namespace = ns
    /\ file = [readable |-> readable, valid |-> valid, services |-> services]

\* The inputs checked: one service with every combination of port lists
\* over its entries; up to MaxServices services; one service with every
\* display name up to MaxNameLen characters; the three fatal inputs.
Inputs ==
    \/ \E k \in 0..MaxEntries : \E es \in [1..k -> EntryInputs] :
          Run("in.json", "default", TRUE, TRUE,
              <<[DisplayName |-> StrWebService, ServiceEntries |-> es]>>)
    \/ \E ns \in {"default", "custom-namespace"} :
          \E k \in 0..MaxServices : \E ss \in [1..k -> ServiceInputs] :
             Run("in.json", ns, TRUE, TRUE, ss)
    \/ \E k \in 0..MaxNameLen : \E name \in [1..k -> NameChars] :
          Run("in.json", "default", TRUE, TRUE,
              <<[DisplayName |-> name, ServiceEntries |-> <<Odd>>]>>)
    \/ Run("", "default", TRUE, TRUE, <<>>)
    \/ Run("in.json", "default", FALSE, TRUE, <<>>)
    \/ Run("in.json", "default", TRUE, FALSE, <<>>)

(***************************************************************************)
(* The program                                                             *)
(***************************************************************************)
Init ==
    /\ Inputs
    /\ pc = "flags"
    /\ root = <<>>
    /\ si = 1
    /\ ei = 1
    /\ policy = NewPolicy(<<>>, "")
    /\ ingressRules = <<>>
    /\ egressRules = <<>>
    /\ stdout = <<>>
    /\ stderr = <<>>

\* log.Fatal: the message goes to standard error and the process exits.
Fatal(msg) ==
    /\ stderr' = Append(stderr, msg)
    /\ pc' = "exit1"
    /\ UNCHANGED <<jsonFile, namespace, file, root, si, ei, policy,
                   ingressRules, egressRules, stdout>>

\* lines 65-71
ParseFlags ==
    /\ pc = "flags"
    /\ IF jsonFile = ""
       THEN Fatal("Usage")
       ELSE /\ pc' = "read"
            /\ UNCHANGED <<jsonFile, namespace, file, root, si, ei, policy,
                           ingressRules, egressRules, stdout, stderr>>

\* lines 74-77
ReadFile ==
    /\ pc = "read"
    /\ IF ~file.readable
       THEN Fatal("Error reading file")
       ELSE /\ pc' = "parse"
            /\ UNCHANGED <<jsonFile, namespace, file, root, si, ei, policy,
                           ingressRules, egressRules, stdout, stderr>>

\* lines 80-83
Unmarshal ==
    /\ pc = "parse"
    /\ IF ~file.valid
       THEN Fatal("Error parsing JSON")
       ELSE /\ root' = file.services
            /\ pc' = "services"
            /\ UNCHANGED <<jsonFile, namespace, file, si, ei, policy,
                           ingressRules, egressRules, stdout, stderr>>

\* lines 86-110: the next service; a fresh policy and fresh rule lists.
BeginService ==
    /\ pc = "services"
    /\ si <= Len(root)
    /\ policy' = NewPolicy(sanitizeName(root[si].DisplayName), namespace)
    /\ ingressRules' = <<>>
    /\ egressRules' = <<>>
    /\ ei' = 1
    /\ pc' = "entries"
    /\ UNCHANGED <<jsonFile, namespace, file, root, si, stdout, stderr>>

\* lines 113-149: one iteration of the loop over the service's entries.
ProcessEntry ==
    /\ pc = "entries"
    /\ ei <= Len(root[si].ServiceEntries)
    /\ LET entry == root[si].ServiceEntries[ei]
       IN  /\ ingressRules' = AddIngress(ingressRules, entry)
           /\ egressRules' = AddEgress(egressRules, entry)
    /\ ei' = ei + 1
    /\ UNCHANGED <<pc, jsonFile, namespace, file, root, si, policy,
                   stdout, stderr>>

\* lines 151-167: assemble the policy, marshal it, print it.
EmitPolicy ==
    /\ pc = "entries"
    /\ ei > Len(root[si].ServiceEntries)
    /\ LET assembled == [policy EXCEPT
                           !.PolicyTypes = PolicyTypes(ingressRules, egressRules),
                           !.Ingress = ingressRules,
                           !.Egress = egressRules]
       IN  /\ policy' = assembled
           /\ stdout' = Printf(stdout, Marshal(assembled))
    /\ si' = si + 1
    /\ pc' = "services"
    /\ UNCHANGED <<jsonFile, namespace, file, root, ei,
                   ingressRules, egressRules, stderr>>

\* line 169: the loop over the services is over, main returns.
Return ==
    /\ pc = "services"
    /\ si > Len(root)
    /\ pc' = "done"
    /\ UNCHANGED <<jsonFile, namespace, file, root, si, ei, policy,
                   ingressRules, egressRules, stdout, stderr>>

Next ==
    \/ ParseFlags
    \/ ReadFile
    \/ Unmarshal
    \/ BeginService
    \/ ProcessEntry
    \/ EmitPolicy
    \/ Return

Spec == Init /\ [][Next]_vars

(***************************************************************************)
(* Vocabulary of the properties                                            *)
(***************************************************************************)
HasDest(e) == e.DestinationPorts # <<>>
HasSrc(e) == e.SourcePorts # <<>>
WellFormed(t) == Atoi(t).ok

\* What a port list would become if malformed tokens were left out.
WellFormedPorts(tokens, proto) ==
    LET good == SelectSeq(tokens, WellFormed)
    IN  [j \in 1..Len(good) |-> [Port |-> Atoi(good[j]).val, Protocol |-> proto]]

\* A group made of every token of the list, in order, with the protocol.
BuiltFrom(group, tokens, proto) ==
    /\ Len(group.Ports) = Len(tokens)
    /\ \A j \in 1..Len(tokens) :
          /\ group.Ports[j].Port = Atoi(tokens[j]).val
          /\ group.Ports[j].Protocol = proto

MalformedTokens(services) ==
    UNION {UNION {
        {<<i, k, "destination", j>> :
            j \in {j \in 1..Len(services[i].ServiceEntries[k].DestinationPorts) :
                    ~WellFormed(services[i].ServiceEntries[k].DestinationPorts[j])}}
        \cup
        {<<i, k, "source", j>> :
            j \in {j \in 1..Len(services[i].ServiceEntries[k].SourcePorts) :
                    ~WellFormed(services[i].ServiceEntries[k].SourcePorts[j])}}
        : k \in 1..Len(services[i].ServiceEntries)} : i \in 1..Len(services)}

AsciiAlnum == Range(LowerLetters) \cup Range(UpperLetters) \cup Range(Digits)
LabelAlnum == Range(LowerLetters) \cup Range(Digits)
HasAlnum(x) == \E i \in 1..Len(x) : x[i] \in AsciiAlnum

\* [a-z0-9]([a-z0-9-]*[a-z0-9])?
IsLabel(x) ==
    /\ x # <<>>
    /\ \A i \in 1..Len(x) : x[i] \in LabelAlnum \cup {"-"}
    /\ x[1] \in LabelAlnum
    /\ x[Len(x)] \in LabelAlnum

NoAdjacentHyphens(x) == \A i \in 1..(Len(x) - 1) : ~(x[i] = "-" /\ x[i + 1] = "-")

\* A hyphen of the input that touches another hyphen or a replaced character.
HyphenTouchesSeparator(x) ==
    \E i \in 1..(Len(x) - 1) :
        \/ x[i] = "-" /\ (x[i + 1] = "-" \/ reClass(ToLowerRune(x[i + 1])))
        \/ x[i + 1] = "-" /\ reClass(ToLowerRune(x[i]))

(***************************************************************************)
(* C1: in every emitted policy, each ingress (egress) group holds one port *)
(* element per well-formed token of the entry's destination_ports          *)
(* (source_ports) and none for a malformed token.                          *)
(***************************************************************************)
C1_MalformedDropped ==
    \A i \in 1..Len(stdout) :
        LET withDest == SelectSeq(root[i].ServiceEntries, HasDest)
            withSrc  == SelectSeq(root[i].ServiceEntries, HasSrc)
        IN  /\ Len(stdout[i].ingress) = Len(withDest)
            /\ Len(stdout[i].egress) = Len(withSrc)
            /\ \A k \in 1..Len(withDest) :
                  stdout[i].ingress[k].Ports =
                      WellFormedPorts(withDest[k].DestinationPorts, withDest[k].L4Protocol)
            /\ \A k \in 1..Len(withSrc) :
                  stdout[i].egress[k].Ports =
                      WellFormedPorts(withSrc[k].SourcePorts, withSrc[k].L4Protocol)

(***************************************************************************)
(* C2: when a run has translated its whole input, the number of            *)
(* diagnostics on the error channel equals the number of malformed port    *)
(* tokens of the input.                                                    *)
(***************************************************************************)
C2_DiagnosticPerMalformed ==
    pc = "done" => Len(stderr) = Cardinality(MalformedTokens(root))

(***************************************************************************)
(* C3: policyTypes of every emitted policy has "Ingress" iff there is an   *)
(* ingress group, "Egress" iff there is an egress group, Ingress first,    *)
(* and is empty for a service without entries.                             *)
(***************************************************************************)
C3_PolicyTypes ==
    \A i \in 1..Len(stdout) :
        LET d == stdout[i]
        IN  /\ ("Ingress" \in Range(d.policyTypes)) <=> (Len(d.ingress) > 0)
            /\ ("Egress" \in Range(d.policyTypes)) <=> (Len(d.egress) > 0)
            /\ (Len(d.ingress) > 0 /\ Len(d.egress) > 0)
                  => d.policyTypes = <<"Ingress", "Egress">>
            /\ Len(d.policyTypes) <= 2
            /\ root[i].ServiceEntries = <<>> => d.policyTypes = <<>>

C3_Witness ==
    \E i \in 1..Len(stdout) :
        /\ Len(stdout[i].ingress) > 0
        /\ Len(stdout[i].egress) > 0
        /\ stdout[i].policyTypes = <<"Ingress", "Egress">>

C8_SanitizeValid ==
    (pc = "entries" /\ HasAlnum(root[si].DisplayName)) => IsLabel(policy.Name)

C8_Witness ==
    /\ pc = "entries"
    /\ HasAlnum(root[si].DisplayName)
    /\ ~IsLabel(root[si].DisplayName)
    /\ Len(policy.Name) = 1

(***************************************************************************)
(* C9: sanitizing a sanitized name changes nothing.                        *)
(***************************************************************************)
C9_SanitizeIdempotent ==
    pc = "entries" => sanitizeName(policy.Name) = policy.Name

C9_Witness ==
    /\ pc = "entries"
    /\ policy.Name # root[si].DisplayName
    /\ Len(policy.Name) >= 2

(***************************************************************************)
(* C10 as stated: a sanitized name never has two adjacent hyphens.         *)
(***************************************************************************)
C10_NeverAdjacentHyphens ==
    pc = "entries" => NoAdjacentHyphens(policy.Name)

(***************************************************************************)
(* C10 as amended: a sanitized name has no two adjacent hyphens unless     *)
(* the display name has a hyphen next to another hyphen or next to a       *)
(* character outside [a-z0-9-] (after lower-casing).                       *)
(***************************************************************************)
C10_RunsCollapse ==
    (pc = "entries" /\ ~HyphenTouchesSeparator(root[si].DisplayName))
        => NoAdjacentHyphens(policy.Name)

C10_Witness ==
    /\ pc = "entries"
    /\ ~HyphenTouchesSeparator(root[si].DisplayName)
    /\ \E i \in 1..(Len(root[si].DisplayName) - 1) :
          /\ reClass(ToLowerRune(root[si].DisplayName[i]))
          /\ reClass(ToLowerRune(root[si].DisplayName[i + 1]))
    /\ Len(policy.Name) = 3
    /\ policy.Name[2] = "-"

=============================================================================
